---- MODULE Spec2Model ----
(***************************************************************************)
(* The summation benchmark of src/main_sum.cpp as a state machine.         *)
(*                                                                         *)
(* The host program (main, raiseFail) is translated from the source.  The  *)
(* OpenCL kernels it launches (cl/sum_cl.h, generated from sum.cl) are not *)
(* part of src/: their bodies are modelled from the design document and    *)
(* are marked so where they are defined.                                   *)
(*                                                                         *)
(* Sizes are scaled down so that the state space is finite and small: the  *)
(* machine word has WordBits bits instead of 32, the work-group has 4      *)
(* lanes instead of 128, a batch work-item sums 2 elements instead of 32   *)
(* (the group size stays a power of two and a multiple of the batch, as   *)
(* 128 and 32 are), and a strategy runs 2 trials instead of 10.            *)
(***************************************************************************)
EXTENDS Integers, Sequences, FiniteSets, TLC

\* ------------------------------------------------------------- bounds ---
\* Largest element count n that Init draws.
MaxN == 5
\* Number of OpenMP threads of the parallel CPU loop.
NumThreads == 2

\* -------------------------------------------------- program constants ---
\* Width of unsigned int, the type of n, as[i], sum and reference_sum (scaled)
WordBits == 4
\* int benchmarkingIters = 10;   (scaled)
benchmarkingIters == 2
\* unsigned int workGroupSize = 128;   (scaled, a power of two)
WORK_GROUP_SIZE == 4
\* global_work_size / 32: elements per work-item of the batch kernels (scaled)
VALUES_PER_WORKITEM == 2

\* std::numeric_limits<unsigned int>::max()
UINT_MAX == 2 ^ WordBits - 1

\* Unsigned arithmetic of the machine word.
Wrap(x) == x % (UINT_MAX + 1)

VARIABLES
    pc,               \* position of main
    n,                \* unsigned int n
    as,               \* std::vector<unsigned int> as(n, 0), indexed 0..n-1
    reference_sum,    \* unsigned int reference_sum
    i,                \* loop variable of the generation and CPU loops
    strategy,         \* which of the seven benchmark blocks main is in (1..7)
    iter,             \* trial counter of the block (iter / i of the trial loops)
    sum,              \* the block's host variable unsigned int sum
    partial,          \* OpenMP loop: each thread's private copy of sum
    laps,             \* timer t: number of laps recorded in the block
    stdout,           \* lines written to std::cout
    diag,             \* the line raiseFail writes to std::cerr, if any
    workGroupSize,    \* unsigned int workGroupSize
    global_work_size, \* unsigned int global_work_size
    as_buffer,        \* gpu::gpu_mem_32u as_buffer (device copy of as)
    sum_buffer,       \* gpu::gpu_mem_32u sum_buffer (one element)
    launch,           \* the NDRange of the kernel in flight
    pending,          \* work-items of the kernel in flight that have not run
    gphase,           \* tree kernels: each work-group's phase
    gstep,            \* tree kernels: each work-group's current step
    arrived,          \* tree kernels: lanes that finished the group's phase
    buf,              \* tree kernels: each work-group's local memory
    phases            \* log of the phases the current GPU block went through

hostVars == <<pc, n, as, reference_sum, i, strategy, iter, sum, laps, stdout, diag>>
ompVars == partial
sizeVars == <<workGroupSize, global_work_size>>
kernelVars == <<launch, pending, gphase, gstep, arrived, buf>>
vars == <<hostVars, ompVars, sizeVars, as_buffer, sum_buffer, kernelVars, phases>>

\* ---------------------------------------------------------- strategies ---
CPU == 1
CPU_OMP == 2
GPU_ATOMIC == 3
GPU_BATCH == 4
GPU_COALESCED == 5
GPU_LOCALMEM == 6
GPU_TREE == 7

Strategies == CPU .. GPU_TREE
GpuStrategies == GPU_ATOMIC .. GPU_TREE
TreeStrategies == {GPU_LOCALMEM, GPU_TREE}

\* The entry point given to ocl::Kernel in each GPU block.
KernelName(s) ==
    CASE s = GPU_ATOMIC -> "globalAtomSum"
      [] s = GPU_BATCH -> "BatchSum"
      [] s = GPU_COALESCED -> "BatchSumCoalesed"
      [] s = GPU_LOCALMEM -> "LocalMemSUm"
      [] s = GPU_TREE -> "TreeSum"

\* The message each block passes to EXPECT_THE_SAME.
Message(s) ==
    CASE s = CPU -> "CPU result should be consistent!"
      [] s = CPU_OMP -> "CPU OpenMP result should be consistent!"
      [] OTHER -> "GPU result should be consistent!"

\* The line numbers if the five GPU blocks shared one check.
CheckLineShared(s) ==
    CASE s = CPU -> 40
      [] s = CPU_OMP -> 55
      [] OTHER -> 97

\* __LINE__ of each block's EXPECT_THE_SAME.
CheckLine(s) ==
    CASE s = CPU -> 40
      [] s = CPU_OMP -> 55
      [] s = GPU_ATOMIC -> 97
      [] s = GPU_BATCH -> 117
      [] s = GPU_COALESCED -> 137
      [] s = GPU_LOCALMEM -> 156
      [] s = GPU_TREE -> 175

\* The label that starts each block's two report lines.
ReportLabel(s) ==
    CASE s = CPU -> "CPU:     "
      [] s = CPU_OMP -> "CPU OMP: "
      [] s = GPU_ATOMIC -> "GPU (Atomic): "
      [] s = GPU_BATCH -> "GPU (BatchSum): "
      [] s = GPU_COALESCED -> "GPU (BatchSumCoalesed): "
      [] s = GPU_LOCALMEM -> "GPU (LocalMemSum): "
      [] s = GPU_TREE -> "GPU (TreeSum): "

\* The two lines a block prints once its trials are over.
ReportLines(s) ==
    << [label |-> ReportLabel(s), unit |-> "s"],
       [label |-> ReportLabel(s), unit |-> "millions/s"] >>

\* -------------------------------------------------------- raiseFail ------
\* raiseFail that reports nothing and never throws.
raiseFailSilent(a, b) == FALSE

\* raiseFail throws exactly when its first two arguments differ.
raiseFail(a, b) == a # b

\* What raiseFail writes to std::cerr before it throws.
Diagnostic(a, b, message, line) ==
    [message |-> message, expected |-> a, actual |-> b, line |-> line]

NoDiag == [message |-> "", expected |-> 0, actual |-> 0, line |-> 0]

\* ------------------------------------------------------- work sizes ------
\* The same rounding without the "- 1".
GlobalWorkSizeOffByOne(nn, g) == Wrap((Wrap(nn + g) \div g) * g)

\* (n + workGroupSize - 1) / workGroupSize * workGroupSize, in unsigned int.
GlobalWorkSize(nn, g) == Wrap((Wrap(nn + g - 1) \div g) * g)

\* The batch kernels' global size taken from n instead of global_work_size.
LaunchGlobalFromN(s) ==
    IF s \in {GPU_BATCH, GPU_COALESCED}
    THEN n \div VALUES_PER_WORKITEM
    ELSE global_work_size

\* The tree kernels launched over n itself, not over n rounded up.
LaunchGlobalTreeFromN(s) ==
    IF s \in {GPU_BATCH, GPU_COALESCED} THEN global_work_size \div VALUES_PER_WORKITEM
    ELSE IF s \in TreeStrategies THEN n
    ELSE global_work_size

\* The global size each GPU block passes to gpu::WorkSize.
LaunchGlobal(s) ==
    IF s \in {GPU_BATCH, GPU_COALESCED}
    THEN global_work_size \div VALUES_PER_WORKITEM
    ELSE global_work_size

NoLaunch == [kernel |-> "", group |-> 0, global |-> 0]

\* ---------------------------------------------------------------- Init ---
NoGroups == [g \in {} |-> 0]

KernelIdle ==
    /\ launch = NoLaunch
    /\ pending = {}
    /\ gphase = NoGroups
    /\ gstep = NoGroups
    /\ arrived = NoGroups
    /\ buf = NoGroups

\* Everything main has not touched yet when it starts.
NothingRun ==
    /\ reference_sum = 0
    /\ i = 0
    /\ strategy = CPU
    /\ iter = 0
    /\ sum = 0
    /\ partial = [t \in 1 .. NumThreads |-> 0]
    /\ laps = 0
    /\ stdout = << >>
    /\ diag = NoDiag
    /\ global_work_size = 0
    /\ as_buffer = NoGroups
    /\ sum_buffer = 0
    /\ KernelIdle
    /\ phases = << >>

\* main up to line 27: n is fixed, as holds n zeros, nothing has run yet.
Init ==
    /\ pc = "gen"
    /\ n \in 1 .. MaxN
    /\ as = [k \in 0 .. n - 1 |-> 0]
    /\ workGroupSize = 0
    /\ NothingRun

\* ------------------------------------------------- input generation ------
\* The range of a generated element: r.next(0, UINT_MAX / n), unless it is
\* given no bound.
GenRangeUnbounded(nn) == 0 .. UINT_MAX

GenRange(nn) == 0 .. (UINT_MAX \div nn)

\* One pass of the loop of lines 28-31: as[i] = r.next(0, UINT_MAX / n) and
\* reference_sum += as[i].  FastRandom is an external service: any value of
\* the requested range may come back.
GenStep ==
    /\ pc = "gen"
    /\ i < n
    /\ \E v \in GenRange(n) :
          /\ as' = [as EXCEPT ![i] = v]
          /\ reference_sum' = Wrap(reference_sum + v)
    /\ i' = i + 1
    /\ UNCHANGED <<pc, n, strategy, iter, sum, laps, stdout, diag>>
    /\ UNCHANGED <<ompVars, sizeVars, as_buffer, sum_buffer, kernelVars, phases>>

\* The generation loop ends; main enters the CPU block with a fresh timer.
GenDone ==
    /\ pc = "gen"
    /\ i = n
    /\ pc' = "loop"
    /\ strategy' = CPU
    /\ iter' = 0
    /\ laps' = 0
    /\ UNCHANGED <<n, as, reference_sum, i, sum, stdout, diag>>
    /\ UNCHANGED <<ompVars, sizeVars, as_buffer, sum_buffer, kernelVars, phases>>

\* ------------------------------------------------------- CPU block -------
\* Line 36: a trial starts with unsigned int sum = 0.
CpuTrialBegin ==
    /\ pc = "loop"
    /\ strategy = CPU
    /\ iter < benchmarkingIters
    /\ sum' = 0
    /\ i' = 0
    /\ pc' = "cpu_sum"
    /\ UNCHANGED <<n, as, reference_sum, strategy, iter, laps, stdout, diag>>
    /\ UNCHANGED <<ompVars, sizeVars, as_buffer, sum_buffer, kernelVars, phases>>

\* Lines 37-39: sum += as[i].
CpuAdd ==
    /\ pc = "cpu_sum"
    /\ i < n
    /\ sum' = Wrap(sum + as[i])
    /\ i' = i + 1
    /\ UNCHANGED <<pc, n, as, reference_sum, strategy, iter, laps, stdout, diag>>
    /\ UNCHANGED <<ompVars, sizeVars, as_buffer, sum_buffer, kernelVars, phases>>

\* Lines 40-41 and 55-56: EXPECT_THE_SAME(reference_sum, sum, ...), then
\* t.nextLap() and the next trial, unless raiseFail threw.
CpuExpect ==
    /\ \/ pc = "cpu_sum" /\ i = n
       \/ pc = "omp_joined"
    /\ IF raiseFail(reference_sum, sum)
       THEN /\ pc' = "failed"
            /\ diag' = Diagnostic(reference_sum, sum, Message(strategy),
                                  CheckLine(strategy))
            /\ UNCHANGED <<laps, iter>>
       ELSE /\ pc' = "loop"
            /\ laps' = laps + 1
            /\ iter' = iter + 1
            /\ UNCHANGED diag
    /\ UNCHANGED <<n, as, reference_sum, i, strategy, sum, stdout>>
    /\ UNCHANGED <<ompVars, sizeVars, as_buffer, sum_buffer, kernelVars, phases>>

\* ---------------------------------------------------- CPU OMP block ------
Threads == 1 .. NumThreads

\* Lines 50-51: sum = 0 and the parallel region forks; every thread gets a
\* private copy of sum initialised to 0 (reduction(+:sum)).
OmpTrialBegin ==
    /\ pc = "loop"
    /\ strategy = CPU_OMP
    /\ iter < benchmarkingIters
    /\ sum' = 0
    /\ i' = 0
    /\ partial' = [t \in Threads |-> 0]
    /\ pc' = "omp_for"
    /\ UNCHANGED <<n, as, reference_sum, strategy, iter, laps, stdout, diag>>
    /\ UNCHANGED <<sizeVars, as_buffer, sum_buffer, kernelVars, phases>>

\* Lines 52-54: iteration i of the loop runs on thread t, on t's private
\* copy of sum.  Which thread gets which index is the runtime's choice, so
\* every partition of 0..n-1 across the threads occurs; a thread adds the
\* elements of its part in increasing index order.  (The threads' private
\* additions do not touch shared state, so only the partition is modelled,
\* not the relative timing of additions on different threads.)
OmpAdd(t) ==
    /\ pc = "omp_for"
    /\ i < n
    /\ partial' = [partial EXCEPT ![t] = Wrap(@ + as[i])]
    /\ i' = i + 1
    /\ UNCHANGED <<pc, n, as, reference_sum, strategy, iter, sum, laps, stdout, diag>>
    /\ UNCHANGED <<sizeVars, as_buffer, sum_buffer, kernelVars, phases>>

\* The orders in which the threads' private copies can be combined.
CombineOrders == {o \in [Threads -> Threads] : \A t \in Threads : \E k \in Threads : o[k] = t}

RECURSIVE CombineFrom(_, _, _)
\* The original sum s with the private copies o[k], o[k+1], ... added, one
\* after the other.
CombineFrom(s, o, k) ==
    IF k > NumThreads THEN s ELSE CombineFrom(Wrap(s + partial[o[k]]), o, k + 1)

\* The reduction that leaves out the first thread's private copy.
OmpJoinWithoutMaster ==
    /\ pc = "omp_for"
    /\ i = n
    /\ \E o \in CombineOrders : sum' = CombineFrom(sum, o, 2)
    /\ partial' = [t \in Threads |-> 0]
    /\ pc' = "omp_joined"
    /\ UNCHANGED <<n, as, reference_sum, i, strategy, iter, laps, stdout, diag>>
    /\ UNCHANGED <<sizeVars, as_buffer, sum_buffer, kernelVars, phases>>

\* End of the parallel region: the private copies are combined into the
\* original sum, in an order that is the runtime's choice, and cease to
\* exist.
OmpJoin ==
    /\ pc = "omp_for"
    /\ i = n
    /\ \E o \in CombineOrders : sum' = CombineFrom(sum, o, 1)
    /\ partial' = [t \in Threads |-> 0]
    /\ pc' = "omp_joined"
    /\ UNCHANGED <<n, as, reference_sum, i, strategy, iter, laps, stdout, diag>>
    /\ UNCHANGED <<sizeVars, as_buffer, sum_buffer, kernelVars, phases>>

\* ------------------------------------------------------------ reports ----
\* The block main enters after block s.
NextPc(s) ==
    CASE s = CPU -> "loop"
      [] s = CPU_OMP -> "setup"
      [] s = GPU_TREE -> "done"
      [] OTHER -> "compile"

\* Lines 43-44, 58-59, 99-100, ...: the trials of the block are over (and,
\* in a GPU block, the result was accepted); the two report lines are
\* printed and main goes on to the next block, whose timer is fresh.
Report ==
    /\ \/ pc = "loop" /\ iter = benchmarkingIters
       \/ pc = "gpu_report"
    /\ stdout' = stdout \o ReportLines(strategy)
    /\ pc' = NextPc(strategy)
    /\ strategy' = IF strategy = GPU_TREE THEN strategy ELSE strategy + 1
    /\ iter' = 0
    /\ laps' = 0
    /\ UNCHANGED <<n, as, reference_sum, i, sum, diag>>
    /\ UNCHANGED <<ompVars, sizeVars, as_buffer, sum_buffer, kernelVars, phases>>

\* ---------------------------------------------------------- GPU setup ----
\* Lines 67-81: the device buffers are allocated, as is uploaded, and the
\* work sizes are computed.  resizeN(1) does not initialise sum_buffer: it
\* holds whatever the device memory held.
Setup ==
    /\ pc = "setup"
    /\ as_buffer' = as
    /\ sum_buffer' \in 0 .. UINT_MAX
    /\ workGroupSize' = WORK_GROUP_SIZE
    /\ global_work_size' = GlobalWorkSize(n, WORK_GROUP_SIZE)
    /\ pc' = "compile"
    /\ UNCHANGED <<n, as, reference_sum, i, strategy, iter, sum, laps, stdout, diag>>
    /\ UNCHANGED <<ompVars, kernelVars, phases>>

\* ---------------------------------------------------------- GPU blocks ---
\* Lines 84-89 (and the same lines of the later blocks): the kernel is
\* compiled, the timer is fresh and the host variable sum starts at 0.
Compile ==
    /\ pc = "compile"
    /\ sum' = 0
    /\ iter' = 0
    /\ laps' = 0
    /\ phases' = << >>
    /\ pc' = "gpu_loop"
    /\ UNCHANGED <<n, as, reference_sum, i, strategy, stdout, diag>>
    /\ UNCHANGED <<ompVars, sizeVars, as_buffer, sum_buffer, kernelVars>>

\* The reset hoisted out of the trial loop: only the first trial writes.
WriteAccOnce ==
    /\ pc = "gpu_loop"
    /\ iter < benchmarkingIters
    /\ sum_buffer' = IF iter = 0 THEN sum ELSE sum_buffer
    /\ phases' = Append(phases, "AccumulatorReset")
    /\ pc' = "gpu_exec_call"
    /\ UNCHANGED <<n, as, reference_sum, i, strategy, iter, sum, laps, stdout, diag>>
    /\ UNCHANGED <<ompVars, sizeVars, as_buffer, kernelVars>>

\* Line 91: sum_buffer.writeN(&sum, 1).
WriteAcc ==
    /\ pc = "gpu_loop"
    /\ iter < benchmarkingIters
    /\ sum_buffer' = sum
    /\ phases' = Append(phases, "AccumulatorReset")
    /\ pc' = "gpu_exec_call"
    /\ UNCHANGED <<n, as, reference_sum, i, strategy, iter, sum, laps, stdout, diag>>
    /\ UNCHANGED <<ompVars, sizeVars, as_buffer, kernelVars>>

\* The work-groups of an NDRange.
Groups(l) == IF l.group = 0 THEN {} ELSE 0 .. (l.global \div l.group) - 1
Lanes(l) == 0 .. l.group - 1

\* Lines 92-93: kernel.exec(gpu::WorkSize(workGroupSize, <global size>),
\* as_buffer, n, sum_buffer) starts the block's kernel over its NDRange.
Dispatch ==
    /\ pc = "gpu_exec_call"
    /\ LET l == [kernel |-> KernelName(strategy), group |-> workGroupSize,
                 global |-> LaunchGlobal(strategy)] IN
          /\ launch' = l
          /\ IF strategy \in TreeStrategies
             THEN /\ pending' = {}
                  /\ gphase' = [g \in Groups(l) |-> "load"]
                  /\ gstep' = [g \in Groups(l) |-> 0]
                  /\ arrived' = [g \in Groups(l) |-> {}]
                  /\ buf' = [g \in Groups(l) |-> [k \in Lanes(l) |-> 0]]
             ELSE /\ pending' = 0 .. l.global - 1
                  /\ UNCHANGED <<gphase, gstep, arrived, buf>>
    /\ phases' = Append(phases, "KernelDispatched")
    /\ pc' = "gpu_exec"
    /\ UNCHANGED <<n, as, reference_sum, i, strategy, iter, sum, laps, stdout, diag>>
    /\ UNCHANGED <<ompVars, sizeVars, as_buffer, sum_buffer>>

\* Every work-item of the kernel in flight has finished.
KernelFinished ==
    /\ pending = {}
    /\ \A g \in DOMAIN gphase : gphase[g] = "done"

\* kernel.exec returns once the kernel has run to completion.
ExecReturn ==
    /\ pc = "gpu_exec"
    /\ KernelFinished
    /\ launch' = NoLaunch
    /\ pending' = {}
    /\ gphase' = NoGroups
    /\ gstep' = NoGroups
    /\ arrived' = NoGroups
    /\ buf' = NoGroups
    /\ phases' = Append(phases, "DeviceSynchronized")
    /\ pc' = "gpu_lap"
    /\ UNCHANGED <<n, as, reference_sum, i, strategy, iter, sum, laps, stdout, diag>>
    /\ UNCHANGED <<ompVars, sizeVars, as_buffer, sum_buffer>>

\* The read-back moved into the trial loop: every trial ends with readN.
NextLapReadBack ==
    /\ pc = "gpu_lap"
    /\ laps' = laps + 1
    /\ iter' = iter + 1
    /\ sum' = sum_buffer
    /\ phases' = Append(phases, "ResultReadBack")
    /\ pc' = "gpu_loop"
    /\ UNCHANGED <<n, as, reference_sum, i, strategy, stdout, diag>>
    /\ UNCHANGED <<ompVars, sizeVars, as_buffer, sum_buffer, kernelVars>>

\* Line 94 and the loop increment: t.nextLap(); ++i.
NextLap ==
    /\ pc = "gpu_lap"
    /\ laps' = laps + 1
    /\ iter' = iter + 1
    /\ pc' = "gpu_loop"
    /\ UNCHANGED <<n, as, reference_sum, i, strategy, sum, stdout, diag>>
    /\ UNCHANGED <<ompVars, sizeVars, as_buffer, sum_buffer, kernelVars, phases>>

\* The read-back taking element 0 of the input buffer instead of the
\* accumulator.
ReadBackElement ==
    /\ pc = "gpu_loop"
    /\ iter = benchmarkingIters
    /\ sum' = as_buffer[0]
    /\ phases' = Append(phases, "ResultReadBack")
    /\ pc' = "gpu_check"
    /\ UNCHANGED <<n, as, reference_sum, i, strategy, iter, laps, stdout, diag>>
    /\ UNCHANGED <<ompVars, sizeVars, as_buffer, sum_buffer, kernelVars>>

\* Line 96: after the last trial, sum_buffer.readN(&sum, 1).
ReadBack ==
    /\ pc = "gpu_loop"
    /\ iter = benchmarkingIters
    /\ sum' = sum_buffer
    /\ phases' = Append(phases, "ResultReadBack")
    /\ pc' = "gpu_check"
    /\ UNCHANGED <<n, as, reference_sum, i, strategy, iter, laps, stdout, diag>>
    /\ UNCHANGED <<ompVars, sizeVars, as_buffer, sum_buffer, kernelVars>>

\* Line 97: EXPECT_THE_SAME(reference_sum, sum, "GPU result should be
\* consistent!").  The exception is caught nowhere: main ends there.
GpuExpect ==
    /\ pc = "gpu_check"
    /\ IF raiseFail(reference_sum, sum)
       THEN /\ pc' = "failed"
            /\ diag' = Diagnostic(reference_sum, sum, Message(strategy),
                                  CheckLine(strategy))
            /\ phases' = Append(phases, "Failed")
       ELSE /\ pc' = "gpu_report"
            /\ phases' = Append(phases, "Validated")
            /\ UNCHANGED diag
    /\ UNCHANGED <<n, as, reference_sum, i, strategy, iter, sum, laps, stdout>>
    /\ UNCHANGED <<ompVars, sizeVars, as_buffer, sum_buffer, kernelVars>>

\* The host steps of main, shared by every specification of the harness.
HostNext ==
    \/ GenStep
    \/ GenDone
    \/ CpuTrialBegin
    \/ CpuAdd
    \/ CpuExpect
    \/ OmpTrialBegin
    \/ \E t \in 1 .. NumThreads : OmpAdd(t)
    \/ OmpJoin
    \/ Report
    \/ Setup
    \/ Compile
    \/ WriteAcc
    \/ Dispatch
    \/ ExecReturn
    \/ NextLap
    \/ ReadBack
    \/ GpuExpect

\* ------------------------------------------- a kernel of unknown body ----
\* The kernel in flight runs to completion and leaves some value in the
\* accumulator: what the harness can rely on when nothing is assumed about
\* the kernels' bodies.
KernelAny ==
    /\ pc = "gpu_exec"
    /\ ~KernelFinished
    /\ sum_buffer' \in 0 .. UINT_MAX
    /\ pending' = {}
    /\ gphase' = [g \in DOMAIN gphase |-> "done"]
    /\ UNCHANGED <<hostVars, ompVars, sizeVars, as_buffer, launch, gstep, arrived, buf, phases>>

NextHarness == HostNext \/ KernelAny

SpecHarness == Init /\ [][NextHarness]_vars

\* -------------------------------------------------- the kernels' bodies --
\* The kernels' source (sum.cl) is not among the files of src/.  Their
\* bodies below follow the design document; their interface (one dispatch
\* over an NDRange, the arguments as_buffer, n and sum_buffer) is the one the
\* host code of main uses.

RECURSIVE SumOver(_, _)
\* The sum, in unsigned arithmetic, of the elements of a at the indices S.
SumOver(a, S) ==
    IF S = {} THEN 0
    ELSE LET k == CHOOSE x \in S : TRUE IN Wrap(a[k] + SumOver(a, S \ {k}))

\* globalAtomSum: work-item w reads element w, if there is one, and adds it
\* to the accumulator with one atomic add.  The work-items that have an
\* element run in any order.  A work-item past the end of the input returns
\* without touching memory, which nothing can observe: those retire in index
\* order.
AtomicItem(w) ==
    /\ pc = "gpu_exec"
    /\ strategy = GPU_ATOMIC
    /\ w \in pending
    /\ w >= n => \A v \in pending : v >= n => w <= v
    /\ sum_buffer' = IF w < n THEN Wrap(sum_buffer + as_buffer[w]) ELSE sum_buffer
    /\ pending' = pending \ {w}
    /\ UNCHANGED <<hostVars, ompVars, sizeVars, as_buffer, launch, gphase, gstep, arrived, buf, phases>>

\* BatchSum: work-item w visits w, w + stride, w + 2*stride, ... with the
\* stride equal to the number of work-items.
StridedIndices(w, items) ==
    {k \in 0 .. n - 1 : \E j \in 0 .. VALUES_PER_WORKITEM - 1 : k = w + j * items}

\* BatchSumCoalesed: work-item w visits base, base + 1, ... from
\* base = w * (elements per work-item).
CoalescedIndices(w) ==
    {k \in 0 .. n - 1 : \E j \in 0 .. VALUES_PER_WORKITEM - 1 :
                            k = w * VALUES_PER_WORKITEM + j}

\* The element indices work-item w of the batch kernel of block s adds up.
BatchIndices(s, w, items) ==
    IF s = GPU_BATCH THEN StridedIndices(w, items) ELSE CoalescedIndices(w)

\* BatchSum and BatchSumCoalesed: work-item w sums its elements in private
\* state and issues one atomic add.
BatchItem(w) ==
    /\ pc = "gpu_exec"
    /\ strategy \in {GPU_BATCH, GPU_COALESCED}
    /\ w \in pending
    /\ sum_buffer' = Wrap(sum_buffer
                          + SumOver(as_buffer, BatchIndices(strategy, w, launch.global)))
    /\ pending' = pending \ {w}
    /\ UNCHANGED <<hostVars, ompVars, sizeVars, as_buffer, launch, gphase, gstep, arrived, buf, phases>>

\* LocalMemSUm walks the steps 1, 2, 4, ... below the group size; TreeSum
\* halves the number of live elements: half = size/2, size/4, ..., 1.
\* main dispatches TreeSum once per trial, over the same NDRange and with the
\* same arguments as LocalMemSUm, and reads the result from sum_buffer (lines
\* 168-174): the halving therefore runs inside each work-group, between
\* barriers, and the group's total reaches the accumulator by lane 0's add.
TreeFirstStep(s) == IF s = GPU_LOCALMEM THEN 1 ELSE launch.group \div 2
TreeNextStep(s, st) == IF s = GPU_LOCALMEM THEN 2 * st ELSE st \div 2
TreeOver(s, st) == IF s = GPU_LOCALMEM THEN st >= launch.group ELSE st = 0

\* The lanes that add in a step: the first groupSize / (2 * step) lanes of
\* LocalMemSUm, the first half lanes of TreeSum.
ActiveLanes(s, st) ==
    IF s = GPU_LOCALMEM THEN 0 .. (launch.group \div (2 * st)) - 1 ELSE 0 .. st - 1

\* The slot lane l adds into; it adds the slot st further on.
TreeSlot(s, st, l) == IF s = GPU_LOCALMEM THEN 2 * st * l ELSE l

\* The barrier that ends a phase of group g: when lane l is the last lane
\* with work in the phase to arrive (done is the set of lanes the phase
\* waits for), the group moves on to step st, or to the atomic add when the
\* tree is complete; until then the lanes that arrived wait.
Barrier(g, l, done, st) ==
    IF arrived[g] \cup {l} = done
    THEN /\ gstep' = [gstep EXCEPT ![g] = st]
         /\ gphase' = [gphase EXCEPT ![g] =
                          IF TreeOver(strategy, st) THEN "atomic" ELSE "tree"]
         /\ arrived' = [arrived EXCEPT ![g] = {}]
    ELSE /\ arrived' = [arrived EXCEPT ![g] = @ \cup {l}]
         /\ UNCHANGED <<gphase, gstep>>

\* Both tree kernels: lane l of group g loads its element (0 past the end of
\* the input) into the group's local memory, and waits at the barrier.  A
\* load reads read-only global memory and writes the lane's own slot only,
\* so the order of the loads of one group cannot be observed: they are taken
\* in lane order.  The groups run independently of one another.
LoadLane(g, l) ==
    /\ pc = "gpu_exec"
    /\ g \in DOMAIN gphase
    /\ gphase[g] = "load"
    /\ l \in Lanes(launch)
    /\ arrived[g] = 0 .. l - 1
    /\ LET gid == g * launch.group + l IN
          buf' = [buf EXCEPT ![g][l] = IF gid < n THEN as_buffer[gid] ELSE 0]
    /\ Barrier(g, l, Lanes(launch), TreeFirstStep(strategy))
    /\ UNCHANGED <<hostVars, ompVars, sizeVars, as_buffer, sum_buffer, launch, pending, phases>>

\* One addition of a tree step, buf[slot] += buf[slot + step], by a lane
\* that has work in the step and has not done it; then the barrier.
TreeLane(g, l) ==
    /\ pc = "gpu_exec"
    /\ g \in DOMAIN gphase
    /\ gphase[g] = "tree"
    /\ l \in ActiveLanes(strategy, gstep[g]) \ arrived[g]
    /\ LET slot == TreeSlot(strategy, gstep[g], l) IN
          buf' = [buf EXCEPT ![g][slot] = Wrap(@ + buf[g][slot + gstep[g]])]
    /\ Barrier(g, l, ActiveLanes(strategy, gstep[g]), TreeNextStep(strategy, gstep[g]))
    /\ UNCHANGED <<hostVars, ompVars, sizeVars, as_buffer, sum_buffer, launch, pending, phases>>

\* Lane 0 of the group adds the group's total, slot 0, to the accumulator
\* with one atomic add.
GroupAtomic(g) ==
    /\ pc = "gpu_exec"
    /\ g \in DOMAIN gphase
    /\ gphase[g] = "atomic"
    /\ sum_buffer' = Wrap(sum_buffer + buf[g][0])
    /\ gphase' = [gphase EXCEPT ![g] = "done"]
    /\ UNCHANGED <<hostVars, ompVars, sizeVars, as_buffer, launch, pending, gstep, arrived, buf, phases>>

\* The largest number of work-items and of work-groups a dispatch can have.
MaxItems == GlobalWorkSize(MaxN, WORK_GROUP_SIZE)
MaxGroups == MaxItems \div WORK_GROUP_SIZE

KernelNext ==
    \/ \E w \in 0 .. MaxItems - 1 : AtomicItem(w)
    \/ \E w \in 0 .. MaxItems - 1 : BatchItem(w)
    \/ \E g \in 0 .. MaxGroups - 1 : \E l \in 0 .. WORK_GROUP_SIZE - 1 : LoadLane(g, l)
    \/ \E g \in 0 .. MaxGroups - 1 : \E l \in 0 .. WORK_GROUP_SIZE - 1 : TreeLane(g, l)
    \/ \E g \in 0 .. MaxGroups - 1 : GroupAtomic(g)

Next == HostNext \/ KernelNext

Spec == Init /\ [][Next]_vars

\* ----------------------------------------- the work-size computation -----
\* The expression of line 80 on its own, for any element count and any
\* group size an unsigned int can hold.
InitWorkSize ==
    /\ pc = "ws_args"
    /\ n \in 0 .. UINT_MAX
    /\ workGroupSize \in 1 .. UINT_MAX
    /\ as = [k \in 0 .. n - 1 |-> 0]
    /\ NothingRun

ComputeWorkSize ==
    /\ pc = "ws_args"
    /\ global_work_size' = GlobalWorkSize(n, workGroupSize)
    /\ pc' = "ws_done"
    /\ UNCHANGED <<n, as, reference_sum, i, strategy, iter, sum, laps, stdout, diag>>
    /\ UNCHANGED <<ompVars, workGroupSize, as_buffer, sum_buffer, kernelVars, phases>>

NextWorkSize == ComputeWorkSize

SpecWorkSize == InitWorkSize /\ [][NextWorkSize]_vars

\* ================================================================ claims ==

RECURSIVE ExactSum(_, _)
\* The mathematical sum (no wrap-around) of the elements of a at indices S.
ExactSum(a, S) ==
    IF S = {} THEN 0
    ELSE LET k == CHOOSE x \in S : TRUE IN a[k] + ExactSum(a, S \ {k})

AllIndices == 0 .. n - 1

SmallestMultipleAtLeast(m, g, nn) == m % g = 0 /\ m >= nn /\ m - g < nn

\* C2 as stated: for every n and every group size, the computed global size
\* is the smallest multiple of the group size that is >= n.
C2_Original ==
    pc = "ws_done" => SmallestMultipleAtLeast(global_work_size, workGroupSize, n)

\* C2 amended: the computed global size is the smallest multiple of the group
\* size that is >= n exactly when n + G - 1 fits the unsigned word; when that
\* sum wraps, the computed global size is 0.
C2_GlobalSizeUnlessWrap ==
    pc = "ws_done" =>
        IF n + workGroupSize - 1 <= UINT_MAX
        THEN SmallestMultipleAtLeast(global_work_size, workGroupSize, n)
        ELSE global_work_size = 0 /\ n > 0

\* A count that is no multiple of the group size was rounded up.
C2_Witness ==
    /\ pc = "ws_done"
    /\ n > workGroupSize
    /\ n % workGroupSize # 0
    /\ global_work_size > n

\* ---------------------------------------------------------------- C3 -----
\* The work-items of the batch kernel in flight.
BatchItems == 0 .. launch.global - 1

\* C3: while a batch kernel runs, it was launched with global_work_size / 32
\* (here / VALUES_PER_WORKITEM) work-items, every index below n belongs to
\* exactly one work-item and no work-item has an index from n on; and when
\* either kernel has completed, the accumulator holds the sum of the whole
\* input, so the strided and the coalesced kernel produce the same sum.
C3_BatchOwnership ==
    /\ (pc = "gpu_exec" /\ strategy \in {GPU_BATCH, GPU_COALESCED}) =>
          /\ launch.global * VALUES_PER_WORKITEM = global_work_size
          /\ \A k \in AllIndices :
                Cardinality({w \in BatchItems :
                    k \in BatchIndices(strategy, w, launch.global)}) = 1
          /\ \A w \in BatchItems :
                BatchIndices(strategy, w, launch.global) \subseteq AllIndices
    /\ (pc \in {"gpu_lap"} /\ strategy \in {GPU_BATCH, GPU_COALESCED}) =>
          sum_buffer = SumOver(as_buffer, AllIndices)

\* The coalesced kernel has completed on five elements, the last one, which
\* fills only half of its work-item's batch, not zero.
C3_Witness ==
    /\ pc = "gpu_lap"
    /\ strategy = GPU_COALESCED
    /\ n = 5
    /\ as[4] > 0
    /\ sum_buffer = SumOver(as_buffer, AllIndices)

\* ---------------------------------------------------------------- C4 -----
\* C4: at the moment a kernel is dispatched, in every trial of every GPU
\* block, the accumulator is zero, whatever an earlier trial, an earlier
\* block or the allocation left in it.
C4_AccumulatorZeroAtDispatch ==
    pc = "gpu_exec_call" => sum_buffer = 0 /\ sum = 0

\* The second trial of a later block is about to be dispatched.
C4_Witness ==
    /\ pc = "gpu_exec_call"
    /\ strategy = GPU_LOCALMEM
    /\ iter = 1
    /\ sum_buffer = 0
    /\ reference_sum > 0

\* ---------------------------------------------------------------- C5 -----
TrialCycle == <<"AccumulatorReset", "KernelDispatched", "DeviceSynchronized">>

\* C5 as stated: every trial is read back and validated before the next
\* trial's reset, so a reset that is not the block's first follows a
\* validation.
C5_Original ==
    \A j \in 2 .. Len(phases) :
        phases[j] = "AccumulatorReset" => phases[j - 1] = "Validated"

\* C5 amended: every trial of a GPU block passes, in this order, through
\* AccumulatorReset, KernelDispatched and DeviceSynchronized; the result is
\* read back and validated once per block, after the last trial.
C5_TrialPhases ==
    /\ Len(phases) <= 3 * benchmarkingIters + 2
    /\ \A j \in 1 .. Len(phases) :
          IF j <= 3 * benchmarkingIters THEN phases[j] = TrialCycle[((j - 1) % 3) + 1]
          ELSE IF j = 3 * benchmarkingIters + 1 THEN phases[j] = "ResultReadBack"
          ELSE phases[j] \in {"Validated", "Failed"}
    /\ pc = "gpu_loop" => Len(phases) = 3 * iter
    /\ pc = "gpu_report" => Len(phases) = 3 * benchmarkingIters + 2

\* A block was validated after all its trials.
C5_Witness ==
    /\ pc = "gpu_report"
    /\ strategy = GPU_BATCH
    /\ Len(phases) = 3 * benchmarkingIters + 2
    /\ phases[Len(phases)] = "Validated"

\* ---------------------------------------------------------------- C6 -----
\* The labels of the report lines of the blocks before block s.
LabelsBefore(s) == {ReportLabel(b) : b \in CPU .. s - 1}

\* C6: a mismatch ends the run at the check: main is in no state from which
\* it takes another step, nothing was printed for the failing block or a
\* later one, and the diagnostic shows two different values; a block
\* reports only when its sum equals the reference sum, and no diagnostic is
\* written while the checks pass.
C6_MismatchAborts ==
    /\ pc = "failed" =>
          /\ diag.expected # diag.actual
          /\ ~ENABLED NextHarness
          /\ \A j \in 1 .. Len(stdout) : stdout[j].label \in LabelsBefore(strategy)
    /\ pc = "gpu_report" => sum = reference_sum
    /\ pc # "failed" => diag = NoDiag
    /\ pc \notin {"failed", "done"} => Len(stdout) = 2 * (strategy - 1)

\* The strided batch block failed its check after three blocks had reported.
C6_Witness ==
    /\ pc = "failed"
    /\ strategy = GPU_BATCH
    /\ Len(stdout) = 6
    /\ sum # reference_sum

\* ---------------------------------------------------------------- C7 -----
\* C7 as stated: the label of the diagnostic alone tells which strategy
\* failed.
C7_Original ==
    pc = "failed" => \A s \in Strategies : Message(s) = diag.message => s = strategy

\* C7 amended: the diagnostic carries the expected value, the actual value,
\* the block's message and the line of the check; the message tells only
\* whether a CPU, the OpenMP or a GPU strategy failed (the five GPU blocks
\* pass the same message), and the line of the check tells which strategy.
C7_DiagnosticIdentifies ==
    pc = "failed" =>
        /\ diag.expected = reference_sum
        /\ diag.actual = sum
        /\ diag.message = Message(strategy)
        /\ \A s \in Strategies : CheckLine(s) = diag.line => s = strategy
        /\ \A s \in Strategies : Message(s) = diag.message =>
              s = strategy \/ {s, strategy} \subseteq GpuStrategies

\* The local-memory block failed its check.
C7_Witness ==
    /\ pc = "failed"
    /\ strategy = GPU_LOCALMEM
    /\ diag.line = 156
    /\ diag.expected # diag.actual

\* ---------------------------------------------------------------- C8 -----
RECURSIVE HalvingPasses(_)
\* Halving passes until one live element is left of m.
HalvingPasses(m) == IF m <= 1 THEN 0 ELSE 1 + HalvingPasses((m + 1) \div 2)

\* The number of dispatches in the log of the block.
Dispatches == Cardinality({j \in 1 .. Len(phases) : phases[j] = "KernelDispatched"})

\* C8 as stated: a trial of the Full Tree Sum is one dispatch per halving
\* pass, until one element is left.
C8_Original ==
    (strategy = GPU_TREE /\ pc = "gpu_check") =>
        Dispatches = benchmarkingIters * HalvingPasses(n)

\* C8 amended: a trial of the Full Tree Sum is a single dispatch of the
\* TreeSum kernel over (workGroupSize, global_work_size), after the
\* accumulator was reset, and the sum is read back from the accumulator
\* buffer after the last trial.
C8_TreeSumSingleDispatch ==
    strategy = GPU_TREE =>
        /\ pc = "gpu_exec" =>
              /\ launch = [kernel |-> "TreeSum", group |-> workGroupSize,
                           global |-> global_work_size]
              /\ Dispatches = iter + 1
        /\ pc = "gpu_check" =>
              /\ Dispatches = benchmarkingIters
              /\ sum = sum_buffer

\* The Full Tree Sum block has read its result back, on five elements.
C8_Witness ==
    /\ strategy = GPU_TREE
    /\ pc = "gpu_check"
    /\ n = 5
    /\ Dispatches = benchmarkingIters
    /\ sum = sum_buffer

\* ---------------------------------------------------------------- C9 -----
\* The input indices that fall into work-group g.
GroupIndices(g) == {k \in AllIndices : k \div launch.group = g}

C10_ReferenceSumExact ==
    /\ ExactSum(as, AllIndices) <= UINT_MAX
    /\ reference_sum = ExactSum(as, AllIndices)

\* Generation is over and every element has the largest value allowed.
C10_Witness ==
    /\ pc = "loop"
    /\ n = 3
    /\ \A k \in AllIndices : as[k] = UINT_MAX \div n
    /\ reference_sum = n * (UINT_MAX \div n)

====
